---- MODULE Spec2Model ----
(***************************************************************************)
(* Model of ben42code.myitertools.islice_extended: a generator that slices *)
(* a forward-only source with start/stop/step of any sign.                 *)
(*                                                                         *)
(* The source is an iterator over `source` (the tests' mock over range(n)):*)
(* srcPos elements have been handed out, `pulls` counts the next-calls it  *)
(* received and `srcStops` how many of them signalled exhaustion.  When    *)
(* failAt is k > 0 the source raises an error of its own on its k-th       *)
(* next-call (a mock whose side effect is an exception), handing out no    *)
(* element on that call.                                                   *)
(* The generator is uncalled, created (body not started), suspended at the *)
(* yield of the deque loop ("buffered"), suspended inside the delegation   *)
(* to itertools.islice ("streaming"), or finished ("done").                *)
(***************************************************************************)
EXTENDS Integers, Sequences, FiniteSets, TLC

\* Bounds of the model.
MaxLen == 3
MaxIdx == 5
MaxStep == 3
ExtraAdvances == 2

VARIABLES source, srcPos, pulls, srcStops, failAt, pc, args, buffer, isl, out,
          lastResult, lastItem, nadv, count

vars == <<source, srcPos, pulls, srcStops, failAt, pc, args, buffer, isl, out,
          lastResult, lastItem, nadv, count>>

\* The next-calls explored on one generator: enough to consume the longest
\* result, see the end reported, and ask again.
MaxAdvances == Len(source) + 1 + ExtraAdvances

\* An optional value: None is the empty tuple, a present value v is <<v>>.
None == <<>>
Some(v) == <<v>>
Val(x) == x[1]

Min(a, b) == IF a <= b THEN a ELSE b
Max(a, b) == IF a >= b THEN a ELSE b

OptIdx == {None} \cup {Some(i) : i \in -MaxIdx..MaxIdx}
OptStep == {None} \cup {Some(i) : i \in -MaxStep..MaxStep}

\* The positional slice arguments a caller can pass: arity 0..4.
ArgTuples ==
    {<<>>} \cup {<<t>> : t \in OptIdx} \cup (OptIdx \X OptIdx)
    \cup (OptIdx \X OptIdx \X OptStep) \cup {<<None, None, None, None>>}

\* range(n), the content the tests give the source.
Range(n) == [i \in 1..n |-> i - 1]

(***************************************************************************)
(* The source iterator.  A source state is [pos, calls, stops, failAt].    *)
(* A next-call gives [item, fail, src]: an element, or None with fail      *)
(* FALSE for exhaustion, or None with fail TRUE for the source's error.    *)
(***************************************************************************)
SrcNext(s) ==
    IF s.calls + 1 = s.failAt
    THEN [item |-> None, fail |-> TRUE, src |-> [s EXCEPT !.calls = s.calls + 1]]
    ELSE IF s.pos < Len(source)
    THEN [item |-> Some(source[s.pos + 1]), fail |-> FALSE,
          src |-> [s EXCEPT !.pos = s.pos + 1, !.calls = s.calls + 1]]
    ELSE [item |-> None, fail |-> FALSE,
          src |-> [s EXCEPT !.calls = s.calls + 1, !.stops = s.stops + 1]]

\* A list(iterable) that takes an error of the source for its end.
RECURSIVE ListFromSourceSwallow(_)
ListFromSourceSwallow(s) ==
    LET r == SrcNext(s) IN
    IF r.item = None
    THEN [items |-> <<>>, fail |-> FALSE, src |-> r.src]
    ELSE LET rest == ListFromSourceSwallow(r.src) IN
         [items |-> <<Val(r.item)>> \o rest.items, fail |-> FALSE,
          src |-> rest.src]

\* list(iterable): next-calls until the source signals exhaustion; an error
\* of the source ends the loop and is passed on (fail).
RECURSIVE ListFromSource(_)
ListFromSource(s) ==
    LET r == SrcNext(s) IN
    IF r.item = None
    THEN [items |-> <<>>, fail |-> r.fail, src |-> r.src]
    ELSE LET rest == ListFromSource(r.src) IN
         [items |-> <<Val(r.item)>> \o rest.items, fail |-> rest.fail,
          src |-> rest.src]

(***************************************************************************)
(* itertools.islice, as the code uses it (non-negative indices, step > 0). *)
(* An islice object is [next, cnt, stop, step, alive]: `next` is the index *)
(* of the next element to return, cnt the number of elements it pulled,    *)
(* stop an optional bound, alive FALSE once it dropped its iterator.       *)
(***************************************************************************)
\* An islice that gives up at once on a range known to be empty.
IsliceNewEmptyShortcut(a) ==
    LET sta == IF Len(a) = 1 \/ a[1] = None THEN 0 ELSE Val(a[1])
        sto == IF Len(a) = 1 THEN a[1] ELSE a[2]
    IN [next |-> sta, cnt |-> 0, stop |-> sto,
        step |-> IF Len(a) < 3 \/ a[3] = None THEN 1 ELSE Val(a[3]),
        alive |-> ~(sto # None /\ Val(sto) <= sta)]

IsliceNew(a) ==
    IF Len(a) = 1
    THEN [next |-> 0, cnt |-> 0, stop |-> a[1], step |-> 1, alive |-> TRUE]
    ELSE [next |-> IF a[1] = None THEN 0 ELSE Val(a[1]),
          cnt |-> 0,
          stop |-> a[2],
          step |-> IF Len(a) < 3 \/ a[3] = None THEN 1 ELSE Val(a[3]),
          alive |-> TRUE]

\* A skip loop that also drops the element at index next.
RECURSIVE IsliceSkipInclusive(_, _)
IsliceSkipInclusive(it, s) ==
    IF it.cnt <= it.next
    THEN LET r == SrcNext(s) IN
         IF r.item = None
         THEN [ok |-> FALSE, fail |-> r.fail, isl |-> it, src |-> r.src]
         ELSE IsliceSkipInclusive([it EXCEPT !.cnt = it.cnt + 1], r.src)
    ELSE [ok |-> TRUE, fail |-> FALSE, isl |-> it, src |-> s]

\* The skip loop of islice's next: pull and drop until cnt reaches next.
RECURSIVE IsliceSkip(_, _)
IsliceSkip(it, s) ==
    IF it.cnt < it.next
    THEN LET r == SrcNext(s) IN
         IF r.item = None
         THEN [ok |-> FALSE, fail |-> r.fail, isl |-> it, src |-> r.src]
         ELSE IsliceSkip([it EXCEPT !.cnt = it.cnt + 1], r.src)
    ELSE [ok |-> TRUE, fail |-> FALSE, isl |-> it, src |-> s]

\* The next index without the cap at stop.
NextIndexUnclamped(it) == it.next + it.step

\* The index of the element after the one just returned, capped at stop.
NextIndex(it) ==
    IF it.stop # None /\ it.next + it.step > Val(it.stop)
    THEN Val(it.stop)
    ELSE it.next + it.step

\* One next-call on an islice object: an element, or None for exhaustion
\* (fail FALSE) or for an error of the source, passed on (fail TRUE); in
\* both cases the islice drops its iterator.
IsliceNext(it, s) ==
    IF ~it.alive
    THEN [item |-> None, fail |-> FALSE, isl |-> it, src |-> s]
    ELSE LET k == IsliceSkip(it, s) IN
         IF ~k.ok
         THEN [item |-> None, fail |-> k.fail,
               isl |-> [k.isl EXCEPT !.alive = FALSE], src |-> k.src]
         ELSE IF k.isl.stop # None /\ k.isl.cnt >= Val(k.isl.stop)
         THEN [item |-> None, fail |-> FALSE,
               isl |-> [k.isl EXCEPT !.alive = FALSE], src |-> k.src]
         ELSE LET r == SrcNext(k.src) IN
              IF r.item = None
              THEN [item |-> None, fail |-> r.fail,
                    isl |-> [k.isl EXCEPT !.alive = FALSE], src |-> r.src]
              ELSE [item |-> r.item, fail |-> FALSE,
                    isl |-> [k.isl EXCEPT !.cnt = k.isl.cnt + 1,
                                          !.next = NextIndex(k.isl)],
                    src |-> r.src]

\* list(an islice object): next-calls on it until it reports exhaustion.
RECURSIVE ListFromIslice(_, _)
ListFromIslice(it, s) ==
    LET r == IsliceNext(it, s) IN
    IF r.item = None
    THEN [items |-> <<>>, fail |-> r.fail, src |-> r.src]
    ELSE LET rest == ListFromIslice(r.isl, r.src) IN
         [items |-> <<Val(r.item)>> \o rest.items, fail |-> rest.fail,
          src |-> rest.src]

(***************************************************************************)
(* Slicing of a list, list[slice(start, stop, step)], with the adjustment  *)
(* of the indices to the list's length and the count of selected items.    *)
(* A slice is [start, stop, step], each optional.                          *)
(***************************************************************************)
SliceIndices(len, sl) ==
    LET stp == IF sl.step = None THEN 1 ELSE Val(sl.step)
        lower == IF stp < 0 THEN -1 ELSE 0
        upper == IF stp < 0 THEN len - 1 ELSE len
        Adjust(v) == IF v < 0 THEN Max(v + len, lower) ELSE Min(v, upper)
        sta == IF sl.start = None
               THEN (IF stp < 0 THEN upper ELSE lower)
               ELSE Adjust(Val(sl.start))
        sto == IF sl.stop = None
               THEN (IF stp < 0 THEN lower ELSE upper)
               ELSE Adjust(Val(sl.stop))
        n == IF stp < 0
             THEN (IF sto < sta THEN ((sta - sto - 1) \div (-stp)) + 1 ELSE 0)
             ELSE (IF sta < sto THEN ((sto - sta - 1) \div stp) + 1 ELSE 0)
    IN [start |-> sta, stop |-> sto, step |-> stp, length |-> n]

ListSlice(L, sl) ==
    LET ix == SliceIndices(Len(L), sl) IN
    [k \in 1..ix.length |-> L[ix.start + (k - 1) * ix.step + 1]]

(***************************************************************************)
(* The body of islice_extended.  It runs only when the generator is        *)
(* advanced; what an advance gives back is a record                        *)
(*   [result, item, pc, buffer, isl, src]                                  *)
(* result: "item", "StopIteration", "ValueError", "TypeError", or          *)
(* "SourceError" for the source's own error leaving the generator.         *)
(***************************************************************************)
NoIslice == [next |-> 0, cnt |-> 0, stop |-> None, step |-> 1, alive |-> FALSE]

\* An exit that leaves the body to be run again by the next advance.
RaiseThenRestart(kind, s) ==
    [result |-> kind, item |-> None, pc |-> "created", buffer |-> <<>>,
     isl |-> NoIslice, src |-> s]

\* The body ends by raising `kind` (StopIteration when it returns): the
\* generator is finished and holds nothing any more.
Raise(kind, s) ==
    [result |-> kind, item |-> None, pc |-> "done", buffer |-> <<>>,
     isl |-> NoIslice, src |-> s]

\* A generator that has returned or raised: every next-call reports the end.
Finished(s) == Raise("StopIteration", s)

\* slice(*args) with a single argument taken as start.
RawSliceStartFirst(a) ==
    IF Len(a) = 1 THEN [start |-> a[1], stop |-> None, step |-> None]
    ELSE IF Len(a) = 2 THEN [start |-> a[1], stop |-> a[2], step |-> None]
    ELSE [start |-> a[1], stop |-> a[2], step |-> a[3]]

\* slice(*args): one argument is stop, two are start and stop.
RawSlice(a) ==
    IF Len(a) = 1 THEN [start |-> None, stop |-> a[1], step |-> None]
    ELSE IF Len(a) = 2 THEN [start |-> a[1], stop |-> a[2], step |-> None]
    ELSE [start |-> a[1], stop |-> a[2], step |-> a[3]]

StepOf(rawSlice) == IF rawSlice.step = None THEN 1 ELSE Val(rawSlice.step)

\* A start that defaults to 0 whatever the sign of the step.
StartOfZeroDefault(rawSlice, step) ==
    IF rawSlice.start = None THEN 0 ELSE Val(rawSlice.start)

StartOf(rawSlice, step) ==
    IF rawSlice.start = None
    THEN (IF step > 0 THEN 0 ELSE -1)
    ELSE Val(rawSlice.start)

SanitizedSlice(rawSlice) ==
    [start |-> StartOf(rawSlice, StepOf(rawSlice)),
     stop |-> rawSlice.stop,
     step |-> StepOf(rawSlice)]

\* A selection that looks at the sign of start and forgets stop.
StrategyStartOnly(sanitizedSlice) ==
    IF sanitizedSlice.start < 0 THEN "NEGATIVE_INDEX"
    ELSE IF sanitizedSlice.step < 0 THEN "NEGATIVE_STEP"
    ELSE "FORWARD"

\* Which of the three branches the sanitized slice selects.
Strategy(sanitizedSlice) ==
    IF sanitizedSlice.start < 0
       \/ (sanitizedSlice.stop # None /\ Val(sanitizedSlice.stop) < 0)
    THEN "NEGATIVE_INDEX"
    ELSE IF sanitizedSlice.step < 0 THEN "NEGATIVE_STEP"
    ELSE "FORWARD"

\* A prefix that stops short of the element at index start.
PrefixLenExclusive(sanitizedSlice) == sanitizedSlice.start

\* How many elements the negative-step branch asks islice for.
PrefixLen(sanitizedSlice) == sanitizedSlice.start + 1

\* Both buffering branches reading the whole source.
NewDataSourceDrainAll(sanitizedSlice, s) == ListFromSource(s)

\* The list the buffering branches read from the source.
NewDataSource(sanitizedSlice, s) ==
    IF Strategy(sanitizedSlice) = "NEGATIVE_INDEX"
    THEN ListFromSource(s)
    ELSE ListFromIslice(IsliceNew(<<Some(PrefixLen(sanitizedSlice))>>), s)

\* A loop that takes the elements from the right end: pop() for popleft().
DequeLoopPop(deque, s) ==
    IF Len(deque) > 0
    THEN [result |-> "item", item |-> Some(deque[Len(deque)]), pc |-> "buffered",
          buffer |-> SubSeq(deque, 1, Len(deque) - 1), isl |-> NoIslice,
          src |-> s]
    ELSE Finished(s)

\* A loop that tops the deque up from the source before each yield.
DequeLoopTopUp(deque, s) ==
    LET r == SrcNext(s)
        d == IF r.item = None THEN deque ELSE Append(deque, Val(r.item))
    IN IF Len(d) > 0
       THEN [result |-> "item", item |-> Some(Head(d)), pc |-> "buffered",
             buffer |-> Tail(d), isl |-> NoIslice, src |-> r.src]
       ELSE Raise("StopIteration", r.src)

\* while len(newDataSource) > 0: yield newDataSource.popleft()
DequeLoop(deque, s) ==
    IF Len(deque) > 0
    THEN [result |-> "item", item |-> Some(Head(deque)), pc |-> "buffered",
          buffer |-> Tail(deque), isl |-> NoIslice, src |-> s]
    ELSE Finished(s)

\* A relay that reports the end and stays attached to a live islice.
YieldFromNoReturn(it, s) ==
    LET r == IsliceNext(it, s) IN
    IF r.fail THEN Raise("SourceError", r.src)
    ELSE IF r.item = None
    THEN [result |-> "StopIteration", item |-> None, pc |-> "streaming",
          buffer |-> <<>>, isl |-> [r.isl EXCEPT !.alive = TRUE], src |-> r.src]
    ELSE [result |-> "item", item |-> r.item, pc |-> "streaming",
          buffer |-> <<>>, isl |-> r.isl, src |-> r.src]

\* yield from the islice object: relay its next element, return at its end;
\* an error coming out of it leaves the generator as it is.
YieldFrom(it, s) ==
    LET r == IsliceNext(it, s) IN
    IF r.fail THEN Raise("SourceError", r.src)
    ELSE IF r.item = None
    THEN Finished(r.src)
    ELSE [result |-> "item", item |-> r.item, pc |-> "streaming",
          buffer |-> <<>>, isl |-> r.isl, src |-> r.src]

\* A body whose forward branch reads the whole islice into the deque first.
BodyBufferForward(a, s) ==
    IF Len(a) \notin 1..3 THEN Raise("TypeError", s)
    ELSE LET rawSlice == RawSlice(a)
             sanitizedSlice == SanitizedSlice(rawSlice)
         IN IF StepOf(rawSlice) = 0 THEN Raise("ValueError", s)
            ELSE IF Strategy(sanitizedSlice) = "FORWARD"
            THEN LET ahead == ListFromIslice(IsliceNew(a), s) IN
                 IF ahead.fail THEN Raise("SourceError", ahead.src)
                 ELSE DequeLoop(ahead.items, ahead.src)
            ELSE LET data == NewDataSource(sanitizedSlice, s) IN
                 IF data.fail THEN Raise("SourceError", data.src)
                 ELSE DequeLoop(ListSlice(data.items, rawSlice), data.src)

\* A body that reads the source before it looks at the step.
BodyLateCheck(a, s) ==
    IF Len(a) \notin 1..3 THEN Raise("TypeError", s)
    ELSE LET rawSlice == RawSlice(a)
             sanitizedSlice == SanitizedSlice(rawSlice)
             data == IF StepOf(rawSlice) = 0 THEN ListFromSource(s)
                     ELSE NewDataSource(sanitizedSlice, s)
         IN IF StepOf(rawSlice) = 0 THEN Raise("ValueError", data.src)
            ELSE IF Strategy(sanitizedSlice) = "FORWARD"
            THEN YieldFrom(IsliceNew(a), s)
            ELSE IF data.fail THEN Raise("SourceError", data.src)
            ELSE DequeLoop(ListSlice(data.items, rawSlice), data.src)

\* The body from its first line to its first yield, return or raise.
Body(a, s) ==
    IF Len(a) \notin 1..3 THEN Raise("TypeError", s)
    ELSE LET rawSlice == RawSlice(a)
             sanitizedSlice == SanitizedSlice(rawSlice)
         IN IF StepOf(rawSlice) = 0 THEN Raise("ValueError", s)
            ELSE IF Strategy(sanitizedSlice) = "FORWARD"
            THEN YieldFrom(IsliceNew(a), s)
            ELSE LET data == NewDataSource(sanitizedSlice, s) IN
                 IF data.fail THEN Raise("SourceError", data.src)
                 ELSE DequeLoop(ListSlice(data.items, rawSlice), data.src)

\* A plain function: the call itself runs the body to its first result.
GeneratorCallEager(a, s) == Body(a, s)

\* Calling the generator function builds the generator and runs none of it.
GeneratorCall(a, s) ==
    [result |-> "none", item |-> None, pc |-> "created", buffer |-> <<>>,
     isl |-> NoIslice, src |-> s]

(***************************************************************************)
(* The state machine.                                                      *)
(***************************************************************************)
Src == [pos |-> srcPos, calls |-> pulls, stops |-> srcStops, failAt |-> failAt]

Apply(g) ==
    /\ pc' = g.pc
    /\ buffer' = g.buffer
    /\ isl' = g.isl
    /\ srcPos' = g.src.pos
    /\ pulls' = g.src.calls
    /\ srcStops' = g.src.stops
    /\ lastResult' = g.result
    /\ lastItem' = g.item
    /\ out' = IF g.item = None THEN out ELSE Append(out, Val(g.item))

Init ==
    /\ source \in {Range(n) : n \in 0..MaxLen}
    /\ srcPos = 0
    /\ pulls = 0
    /\ srcStops = 0
    /\ failAt = 0
    /\ count = 0
    /\ pc = "uncalled"
    /\ args = <<>>
    /\ buffer = <<>>
    /\ isl = NoIslice
    /\ out = <<>>
    /\ lastResult = "none"
    /\ lastItem = None
    /\ nadv = 0

\* islice_extended(source, *a)
Construct ==
    /\ pc = "uncalled"
    /\ \E a \in ArgTuples :
          /\ args' = a
          /\ Apply(GeneratorCall(a, Src))
    /\ UNCHANGED <<source, failAt, count, nadv>>

\* The first next-call on the generator: the body runs to its first yield.
AdvanceFirst ==
    /\ pc = "created"
    /\ nadv < MaxAdvances
    /\ Apply(Body(args, Src))
    /\ nadv' = nadv + 1
    /\ UNCHANGED <<source, failAt, count, args>>

\* A next-call on the generator suspended in the deque loop.
AdvanceBuffered ==
    /\ pc = "buffered"
    /\ nadv < MaxAdvances
    /\ Apply(DequeLoop(buffer, Src))
    /\ nadv' = nadv + 1
    /\ UNCHANGED <<source, failAt, count, args>>

\* A next-call on the generator suspended in the delegation to islice.
AdvanceStreaming ==
    /\ pc = "streaming"
    /\ nadv < MaxAdvances
    /\ Apply(YieldFrom(isl, Src))
    /\ nadv' = nadv + 1
    /\ UNCHANGED <<source, failAt, count, args>>

\* A next-call on the finished generator.
AdvanceFinished ==
    /\ pc = "done"
    /\ nadv < MaxAdvances
    /\ Apply(Finished(Src))
    /\ nadv' = nadv + 1
    /\ UNCHANGED <<source, failAt, count, args>>

Next ==
    \/ Construct
    \/ AdvanceFirst
    \/ AdvanceBuffered
    \/ AdvanceStreaming
    \/ AdvanceFinished

Spec == Init /\ [][Next]_vars

\* The same program over a source that raises an error of its own on one of
\* its next-calls: in place of an element, or in place of the exhaustion
\* signal.
FailInit ==
    /\ source \in {Range(n) : n \in 0..MaxLen}
    /\ failAt \in 1..(Len(source) + 1)
    /\ srcPos = 0
    /\ pulls = 0
    /\ srcStops = 0
    /\ count = 0
    /\ pc = "uncalled"
    /\ args = <<>>
    /\ buffer = <<>>
    /\ isl = NoIslice
    /\ out = <<>>
    /\ lastResult = "none"
    /\ lastItem = None
    /\ nadv = 0

FailSpec == FailInit /\ [][Next]_vars

(***************************************************************************)
(* The worked examples: the 10-element source of the examples and of the   *)
(* tests' tables (and the empty source), with the slices they use.         *)
(***************************************************************************)
ExampleSize == 10

ExampleArgs ==
    { <<Some(0), Some(5), Some(1)>>,     <<Some(5), Some(0), Some(-1)>>,
      <<Some(-10), Some(-5), Some(1)>>,  <<Some(-10), Some(5), Some(1)>>,
      <<Some(0), Some(-5), Some(1)>>,    <<Some(-5), Some(-10), Some(-1)>>,
      <<Some(-5), Some(0), Some(-1)>>,   <<Some(5), Some(-10), Some(-1)>>,
      <<Some(4), Some(7), Some(1)>>,     <<Some(4), Some(7), Some(2)>>,
      <<Some(4), Some(4), Some(5)>>,     <<Some(9), Some(10), Some(1)>>,
      <<Some(-1), Some(10), Some(1)>>,   <<Some(1), Some(-10), Some(1)>>,
      <<Some(3), Some(1), Some(-1)>>,    <<Some(3), None, Some(-1)>>,
      <<Some(4), Some(6), Some(-1)>>,    <<Some(6), Some(4), Some(1)>>,
      <<Some(-4), Some(-6), Some(1)>>,   <<Some(-6), Some(-4), Some(-1)>>,
      <<None, None, Some(-1)>>,          <<None>> }

ExampleInit ==
    /\ source \in {Range(0), Range(ExampleSize)}
    /\ failAt = 0
    /\ srcPos = 0
    /\ pulls = 0
    /\ srcStops = 0
    /\ count = 0
    /\ pc = "uncalled"
    /\ args = <<>>
    /\ buffer = <<>>
    /\ isl = NoIslice
    /\ out = <<>>
    /\ lastResult = "none"
    /\ lastItem = None
    /\ nadv = 0

\* islice_extended(input, *testcase)
ExampleConstruct ==
    /\ pc = "uncalled"
    /\ \E a \in ExampleArgs :
          /\ args' = a
          /\ Apply(GeneratorCall(a, Src))
    /\ UNCHANGED <<source, failAt, count, nadv>>

ExampleStep ==
    \/ ExampleConstruct
    \/ AdvanceFirst
    \/ AdvanceBuffered
    \/ AdvanceStreaming
    \/ AdvanceFinished

ExampleSpec == ExampleInit /\ [][ExampleStep]_vars

(***************************************************************************)
(* IteratorCounter: a wrapper around the source that counts the elements   *)
(* it has returned.  pc is "nocounter" before the constructor has run and  *)
(* "counter" afterwards; `out` collects what its next-calls returned.      *)
(***************************************************************************)
MaxElem == 1

\* The lists a wrapped source can hold.
CounterSources ==
    UNION {[1..n -> 0..MaxElem] : n \in 0..MaxLen}

\* A constructor that pulls a first element to look at it.
CounterNewPriming(s) == [count |-> 0, src |-> SrcNext(s).src]

\* __init__: self._iterator = iter(iterator); self.count = 0
CounterNew(s) == [count |-> 0, src |-> s]

\* __iter__: return self
CounterIterSelf(c, s) == [result |-> "self", item |-> None, count |-> c, src |-> s]

\* A __next__ that counts before it asks the source.
CounterNextCountFirst(c, s) ==
    LET r == SrcNext(s) IN
    IF r.item = None
    THEN [result |-> IF r.fail THEN "SourceError" ELSE "StopIteration",
          item |-> None, count |-> c + 1, src |-> r.src]
    ELSE [result |-> "item", item |-> r.item, count |-> c + 1, src |-> r.src]

\* A __next__ that remembers the end and does not ask the source again.
CounterNextSticky(c, s) ==
    IF s.stops > 0
    THEN [result |-> "StopIteration", item |-> None, count |-> c, src |-> s]
    ELSE LET r == SrcNext(s) IN
         IF r.item = None
         THEN [result |-> IF r.fail THEN "SourceError" ELSE "StopIteration",
               item |-> None, count |-> c, src |-> r.src]
         ELSE [result |-> "item", item |-> r.item, count |-> c + 1, src |-> r.src]

\* __next__: value = next(self._iterator); self.count += 1; return value
CounterNext(c, s) ==
    LET r == SrcNext(s) IN
    IF r.item = None
    THEN [result |-> IF r.fail THEN "SourceError" ELSE "StopIteration",
          item |-> None, count |-> c, src |-> r.src]
    ELSE [result |-> "item", item |-> r.item, count |-> c + 1, src |-> r.src]

ApplyCounter(g) ==
    /\ count' = g.count
    /\ srcPos' = g.src.pos
    /\ pulls' = g.src.calls
    /\ srcStops' = g.src.stops
    /\ lastResult' = g.result
    /\ lastItem' = g.item
    /\ out' = IF g.item = None THEN out ELSE Append(out, Val(g.item))

CounterInit ==
    /\ source \in CounterSources
    /\ failAt = 0
    /\ srcPos = 0
    /\ pulls = 0
    /\ srcStops = 0
    /\ count = 0
    /\ pc = "nocounter"
    /\ args = <<>>
    /\ buffer = <<>>
    /\ isl = NoIslice
    /\ out = <<>>
    /\ lastResult = "none"
    /\ lastItem = None
    /\ nadv = 0

\* IteratorCounter(source)
CounterConstruct ==
    /\ pc = "nocounter"
    /\ pc' = "counter"
    /\ LET c == CounterNew(Src) IN
          /\ count' = c.count
          /\ srcPos' = c.src.pos
          /\ pulls' = c.src.calls
          /\ srcStops' = c.src.stops
    /\ UNCHANGED <<source, failAt, args, buffer, isl, out, lastResult,
                   lastItem, nadv>>

\* iter(counter)
CounterIter ==
    /\ pc = "counter"
    /\ ApplyCounter(CounterIterSelf(count, Src))
    /\ UNCHANGED <<source, failAt, pc, args, buffer, isl, nadv>>

\* next(counter)
CounterAdvance ==
    /\ pc = "counter"
    /\ nadv < MaxAdvances
    /\ ApplyCounter(CounterNext(count, Src))
    /\ nadv' = nadv + 1
    /\ UNCHANGED <<source, failAt, pc, args, buffer, isl>>

CounterStep ==
    \/ CounterConstruct
    \/ CounterIter
    \/ CounterAdvance

CounterSpec == CounterInit /\ [][CounterStep]_vars

(***************************************************************************)
(* A shared source: while the operator is advanced, another consumer reads *)
(* the same underlying iterator through an IteratorCounter of its own, so  *)
(* `count` is the number of elements that consumer has taken.              *)
(***************************************************************************)
\* next(counter) by the other consumer: one next-call on the shared source;
\* what it returns goes to that consumer, not to the operator's output.
DirectNext ==
    /\ pc # "uncalled"
    /\ pulls < Len(source) + 1 + ExtraAdvances
    /\ LET r == CounterNext(count, Src) IN
          /\ count' = r.count
          /\ srcPos' = r.src.pos
          /\ pulls' = r.src.calls
          /\ srcStops' = r.src.stops
    /\ UNCHANGED <<source, failAt, pc, args, buffer, isl, out, lastResult,
                   lastItem, nadv>>

SharedNext ==
    \/ Construct
    \/ AdvanceFirst
    \/ AdvanceBuffered
    \/ AdvanceStreaming
    \/ AdvanceFinished
    \/ DirectNext

SharedSpec == Init /\ [][SharedNext]_vars

(***************************************************************************)
(* Vocabulary of the properties: the slice read off the call's arguments,  *)
(* its normalized form, and the slice of a materialized list as the        *)
(* language defines it (the items of index i + m*k between the bounds).    *)
(***************************************************************************)
Called == pc # "uncalled" /\ Len(args) \in 1..3

ArgStart == IF Len(args) \in 2..3 THEN args[1] ELSE None
ArgStop == IF Len(args) = 1 THEN args[1]
           ELSE IF Len(args) \in 2..3 THEN args[2] ELSE None
ArgStep == IF Len(args) = 3 THEN args[3] ELSE None

NStep == IF ArgStep = None THEN 1 ELSE Val(ArgStep)
NStart == IF ArgStart = None THEN (IF NStep > 0 THEN 0 ELSE -1) ELSE Val(ArgStart)

NegativeIndex == NStart < 0 \/ (ArgStop # None /\ Val(ArgStop) < 0)
NegativeStep == ~NegativeIndex /\ NStep < 0
Forward == ~NegativeIndex /\ NStep > 0

Clamp(v, lo, hi) == Max(lo, Min(v, hi))

RefSlice(L, sta, sto, stp) ==
    LET len == Len(L)
        k == IF stp = None THEN 1 ELSE Val(stp)
        Rel(v) == IF v < 0 THEN v + len ELSE v
        Bound(v) == IF k > 0 THEN Clamp(Rel(v), 0, len)
                    ELSE Clamp(Rel(v), -1, len - 1)
        i == IF sta = None THEN (IF k > 0 THEN 0 ELSE len - 1) ELSE Bound(Val(sta))
        j == IF sto = None THEN (IF k > 0 THEN len ELSE -1) ELSE Bound(Val(sto))
        Picked == {x \in 0..(len - 1) :
                     \E m \in 0..len :
                        x = i + m * k /\ (IF k > 0 THEN x < j ELSE x > j)}
        Rank(x) == Cardinality({y \in Picked : IF k > 0 THEN y < x ELSE y > x})
    IN [r \in 1..Cardinality(Picked) |->
          L[(CHOOSE x \in Picked : Rank(x) = r - 1) + 1]]

IsPrefix(a, b) == Len(a) <= Len(b) /\ SubSeq(b, 1, Len(a)) = a

\* What the advances have produced agrees with the reference `ref`: every
\* element so far is the reference's, in order, and nothing is missing once
\* the end has been reported.
Produces(ref) ==
    /\ IsPrefix(out, ref)
    /\ lastResult = "item" => lastItem = Some(ref[Len(out)])
    /\ lastResult = "StopIteration" => out = ref
    /\ lastResult \in {"none", "item", "StopIteration"}

(***************************************************************************)
(* C1: for every source and every (start, stop, step) of integers or None  *)
(* with step # 0, the elements islice_extended yields are those of         *)
(* list(S)[start:stop:step], in order; fully consumed, it yielded all.     *)
(***************************************************************************)
C1_EqualsReferenceSlice ==
    (pc # "uncalled" /\ Len(args) = 3 /\ NStep # 0)
        => Produces(RefSlice(source, args[1], args[2], args[3]))

C1_Witness ==
    /\ pc = "done" /\ Len(args) = 3 /\ lastResult = "StopIteration"
    /\ NStep = -1 /\ ArgStart = Some(2) /\ ArgStop = None
    /\ Len(source) = 3 /\ out = <<2, 1, 0>>

(***************************************************************************)
(* C2: one slice argument is stop (result list(S)[:stop]); two arguments   *)
(* are start and stop (result list(S)[start:stop]); step is 1 in both.     *)
(***************************************************************************)
C2_ArityFollowsSlice ==
    /\ (pc # "uncalled" /\ Len(args) = 1)
          => Produces(RefSlice(source, None, args[1], Some(1)))
    /\ (pc # "uncalled" /\ Len(args) = 2)
          => Produces(RefSlice(source, args[1], args[2], Some(1)))

C2_Witness ==
    /\ pc = "done" /\ Len(args) = 1 /\ args[1] = Some(-1)
    /\ Len(source) = 3 /\ lastResult = "StopIteration" /\ out = <<0, 1>>

(***************************************************************************)
(* C3: constructing the operator makes no next-call on the source: until   *)
(* the first advance the source has been pulled 0 times, whatever the      *)
(* parameters (any signs, None, step 0).                                   *)
(***************************************************************************)
C3_NoPullBeforeFirstAdvance ==
    nadv = 0 => (pulls = 0 /\ srcPos = 0 /\ srcStops = 0 /\ out = <<>>)

C3_Witness ==
    /\ pc = "created" /\ nadv = 0 /\ Len(args) = 3
    /\ NStart < 0 /\ NStep < 0 /\ Len(source) > 0 /\ pulls = 0

(***************************************************************************)
(* C4: a zero step is rejected lazily.  Constructing with step 0 does not  *)
(* fail and pulls nothing; the first advance fails with ValueError and     *)
(* itself pulls nothing.                                                   *)
(***************************************************************************)
C4_ZeroStepRejectedLazily ==
    (pc # "uncalled" /\ Len(args) = 3 /\ ArgStep = Some(0))
        => /\ nadv = 0 => (pc = "created" /\ lastResult = "none" /\ pulls = 0)
           /\ nadv = 1 => (lastResult = "ValueError" /\ pulls = 0 /\ out = <<>>)

C4_Witness ==
    /\ Len(args) = 3 /\ ArgStep = Some(0) /\ nadv = 1
    /\ lastResult = "ValueError" /\ Len(source) > 0 /\ NStart < 0

(***************************************************************************)
(* C5: end-of-sequence is sticky.  Once an advance has reported the end,   *)
(* every later advance reports it again, returns no element and makes no   *)
(* next-call on the source.                                                *)
(***************************************************************************)
C5_EndIsSticky ==
    [][lastResult = "StopIteration"
          => /\ lastResult' = "StopIteration"
             /\ lastItem' = None
             /\ out' = out
             /\ pulls' = pulls
             /\ srcPos' = srcPos]_vars

C5_Witness ==
    /\ Called /\ Forward /\ ArgStop = None /\ Len(source) > 0
    /\ lastResult = "StopIteration" /\ Len(out) > 0
    /\ nadv >= Len(out) + 3 /\ pulls = Len(source) + 1

(***************************************************************************)
(* C6: with a negative normalized start, or a negative stop, and a step    *)
(* that is not 0, the first advance drains the source: len(S)+1 next-calls *)
(* (the last one signals exhaustion), whether it returns an element or the *)
(* end, and the count stays there through full consumption.                *)
(***************************************************************************)
C6_NegativeIndexDrains ==
    (Called /\ NStep # 0 /\ NegativeIndex /\ nadv >= 1)
        => /\ pulls = Len(source) + 1
           /\ srcPos = Len(source)
           /\ srcStops = 1

C6_Witness ==
    /\ Called /\ NStep # 0 /\ NStart >= 0 /\ ArgStop # None /\ NegativeIndex
    /\ nadv = 1 /\ lastResult = "item" /\ Len(buffer) > 0
    /\ Len(source) = 3 /\ pulls = 4

(***************************************************************************)
(* C7: with start >= 0, stop None or >= 0 and step < 0, the first advance  *)
(* makes min(start+1, len(S)+1) next-calls and no later advance makes any, *)
(* also when the result is empty because start <= stop.                    *)
(***************************************************************************)
C7_NegativeStepPrefix ==
    (Called /\ NegativeStep /\ nadv >= 1)
        => pulls = Min(NStart + 1, Len(source) + 1)

C7_Witness ==
    /\ Called /\ NegativeStep /\ nadv >= 2 /\ ArgStop # None
    /\ NStart <= Val(ArgStop) /\ NStart = 1 /\ Len(source) = 3
    /\ out = <<>> /\ pulls = 2

(***************************************************************************)
(* C8: in the forward case (start >= 0, step > 0) with stop None or        *)
(* stop > start and a source of more than start elements, the first        *)
(* advance makes start+1 next-calls, for every step > 0.                   *)
(***************************************************************************)
C8_ForwardFirstAdvance ==
    (Called /\ Forward /\ (ArgStop = None \/ Val(ArgStop) > NStart)
       /\ Len(source) > NStart /\ nadv = 1)
        => /\ pulls = NStart + 1
           /\ lastResult = "item"
           /\ lastItem = Some(source[NStart + 1])

C8_Witness ==
    /\ Called /\ Forward /\ ArgStop # None /\ NStart = 1 /\ NStep = 2
    /\ Val(ArgStop) > NStart /\ Len(source) = 3
    /\ nadv = 1 /\ pulls = 2 /\ lastItem = Some(1)

(***************************************************************************)
(* C9: in the forward case, consuming to the end advances the source by    *)
(* max(start, stop) elements when it has that many (so the caller's next   *)
(* direct pull gets the element of index max(start, stop)); when it is     *)
(* shorter, or stop is None, len(S)+1 next-calls are made.                 *)
(***************************************************************************)
C9_ForwardFullConsumption ==
    (Called /\ Forward /\ lastResult = "StopIteration")
        => IF ArgStop # None /\ Len(source) >= Max(NStart, Val(ArgStop))
           THEN /\ pulls = Max(NStart, Val(ArgStop))
                /\ srcPos = Max(NStart, Val(ArgStop))
                /\ srcStops = 0
           ELSE /\ pulls = Len(source) + 1
                /\ srcPos = Len(source)

C9_Witness ==
    /\ Called /\ Forward /\ lastResult = "StopIteration"
    /\ NStart = 0 /\ ArgStop = Some(2) /\ NStep = 3 /\ Len(source) = 3
    /\ out = <<0>> /\ srcPos = 2 /\ pulls = 2

(***************************************************************************)
(* C10: in the forward case with 0 <= stop <= start, nothing is yielded,   *)
(* yet the first advance runs the skip phase and consumes start elements   *)
(* of a source that has them; no later advance pulls.                      *)
(***************************************************************************)
C10_ForwardEmptyRange ==
    (Called /\ Forward /\ ArgStop # None /\ Val(ArgStop) <= NStart
       /\ Len(source) >= NStart /\ nadv >= 1)
        => /\ out = <<>>
           /\ lastResult = "StopIteration"
           /\ pulls = NStart
           /\ srcPos = NStart
           /\ srcStops = 0

C10_Witness ==
    /\ Called /\ Forward /\ ArgStop = Some(1) /\ NStart = 2 /\ NStep = 2
    /\ Len(source) = 3 /\ nadv >= 2 /\ pulls = 2 /\ out = <<>>

(***************************************************************************)
(* C11: consumption against what the result needs.                         *)
(* A prefix of k elements fixes the result when every source that starts   *)
(* with these k elements, whatever its length, has the same slice; Needed  *)
(* is the shortest such prefix, or the whole source when only its end      *)
(* settles the result.  Lengths up to Horizon stand for "whatever length": *)
(* beyond the largest index magnitude the slice is empty for good or moves *)
(* with the length.                                                        *)
(***************************************************************************)
Horizon == MaxLen + 2 * MaxIdx + MaxStep + 2

RefOfLength(n) == RefSlice(Range(n), ArgStart, ArgStop, ArgStep)

Fixed(k) == \A n \in k..Horizon : RefOfLength(n) = RefOfLength(Len(source))

Needed ==
    IF \E k \in 0..Len(source) : Fixed(k)
    THEN CHOOSE k \in 0..Len(source) :
            Fixed(k) /\ \A h \in 0..(k - 1) : ~Fixed(h)
    ELSE Len(source)

\* The number of elements the selected branch may consume.
StrategyBound ==
    IF NegativeIndex THEN Len(source)
    ELSE IF NegativeStep THEN Min(NStart + 1, Len(source))
    ELSE IF ArgStop = None THEN Len(source)
    ELSE Min(Max(NStart, Val(ArgStop)), Len(source))

\* C11 as stated: never more elements consumed than the shortest prefix that
\* fixes the result, and the source read to its end only when no prefix does.
C11_MinimalConsumption ==
    (Called /\ NStep # 0)
        => /\ srcPos <= Needed
           /\ srcStops > 0 => ~(\E k \in 0..Len(source) : Fixed(k))

\* C11 amended: consumption is bounded by the branch, not by what the result
\* needs: at most max(start, stop) elements in the forward branch (all of
\* them when stop is None), at most start+1 with a negative step, the whole
\* source with a negative index; the source is read to exhaustion only with
\* a negative index, with stop None in the forward branch, or when it is
\* shorter than the branch's bound.
C11_ConsumptionBoundedByStrategy ==
    (Called /\ NStep # 0)
        => /\ srcPos <= StrategyBound
           /\ srcStops > 0
                => \/ NegativeIndex
                   \/ (Forward /\ ArgStop = None)
                   \/ (NegativeStep /\ Len(source) < NStart + 1)
                   \/ (Forward /\ ArgStop # None
                         /\ Len(source) < Max(NStart, Val(ArgStop)))

C11_Witness ==
    /\ Called /\ Forward /\ NStart = 2 /\ ArgStop = Some(1) /\ NStep = 1
    /\ Len(source) = 3 /\ lastResult = "StopIteration"
    /\ srcPos = 2 /\ srcPos = StrategyBound /\ Needed = 0

(***************************************************************************)
(* C12: prompt release.  After every advance the operator holds exactly    *)
(* the part of the result not yet yielded: in the buffering branches the   *)
(* deque is that suffix (elements pulled but outside the result, and       *)
(* elements already yielded, are gone); the forward branch holds nothing.  *)
(***************************************************************************)
RefResult == RefSlice(source, ArgStart, ArgStop, ArgStep)

C12_BufferIsRemainingResult ==
    (Called /\ NStep # 0 /\ nadv >= 1)
        => IF Forward
           THEN buffer = <<>>
           ELSE /\ Len(out) <= Len(RefResult)
                /\ buffer = SubSeq(RefResult, Len(out) + 1, Len(RefResult))

C12_Witness ==
    /\ Called /\ NegativeIndex /\ ArgStart = None /\ ArgStop = Some(-1)
    /\ NStep = 1 /\ Len(source) = 3 /\ nadv = 1 /\ srcPos = 3
    /\ out = <<0>> /\ buffer = <<1>>

(***************************************************************************)
(* C13: IteratorCounter.count is, in every state, the number of elements   *)
(* the wrapper has returned: one more per returned element, unchanged by   *)
(* an advance that signals exhaustion; the elements returned are the       *)
(* source's, in order.                                                     *)
(***************************************************************************)
C13_CountIsReturnedElements ==
    pc = "counter"
        => /\ count = Len(out)
           /\ Len(out) <= Len(source)
           /\ out = SubSeq(source, 1, Len(out))
           /\ lastResult = "item" => lastItem = Some(source[count])
           /\ lastResult = "StopIteration" => count = Len(source)

C13_Witness ==
    /\ pc = "counter" /\ lastResult = "StopIteration" /\ Len(source) = 2
    /\ source[1] # source[2] /\ count = 2 /\ out = source /\ nadv = 4

(***************************************************************************)
(* C17: constructing an IteratorCounter does not advance the wrapped       *)
(* source (count = 0 and 0 next-calls until the first advance), and        *)
(* iter(counter) gives the counter itself and changes neither count nor    *)
(* the source's pull count.                                                *)
(***************************************************************************)
C17_ConstructAndIterPullNothing ==
    /\ [](pc = "counter" /\ nadv = 0
            => count = 0 /\ pulls = 0 /\ srcPos = 0 /\ out = <<>>)
    /\ [][lastResult' = "self"
            => pc' = "counter" /\ UNCHANGED <<count, pulls, srcPos, srcStops, out>>]_vars

C17_Witness ==
    /\ pc = "counter" /\ lastResult = "self" /\ nadv = 2 /\ count = 2
    /\ pulls = 2 /\ Len(source) = 3

(***************************************************************************)
(* C14: an error raised by the source while it is pulled leaves the        *)
(* operator, as it is, from the very advance in which the pull happened,   *)
(* in every branch: that advance returns no element and does not report    *)
(* the end, the pull is not tried again, and the error surfaces from no    *)
(* other advance.                                                          *)
(***************************************************************************)
C14_SourceFailurePropagates ==
    [][/\ (pulls < failAt /\ failAt <= pulls') <=> (lastResult' = "SourceError")
       /\ lastResult' = "SourceError"
            => /\ lastItem' = None
               /\ out' = out
               /\ pulls' = failAt
               /\ nadv' = nadv + 1]_vars

C14_Witness ==
    /\ Called /\ NStep # 0 /\ NegativeIndex /\ Len(source) = 3
    /\ failAt = 3 /\ lastResult = "SourceError" /\ pulls = 3 /\ srcPos = 2
    /\ out = <<>> /\ nadv = 1

(***************************************************************************)
(* C15: example 4.  Source [0..9], slice (None, None, -1): the result is   *)
(* [9, 8, ..., 0]; as stated, the source is pulled exactly 10 times,       *)
(* counting next-calls as the other figures do (exhaustion probe included).*)
(***************************************************************************)
Example4 ==
    /\ pc # "uncalled"
    /\ source = Range(ExampleSize)
    /\ args = <<None, None, Some(-1)>>
    /\ lastResult = "StopIteration"

C15_Example4TenPulls ==
    Example4 => (out = <<9, 8, 7, 6, 5, 4, 3, 2, 1, 0>> /\ pulls = 10)

\* C15 amended: the result is [9, ..., 0] and the source receives 11
\* next-calls, the 10 elements and the call that signals exhaustion (start
\* normalizes to -1, so the whole source is drained).
C15_Example4ElevenPulls ==
    Example4
        => /\ out = <<9, 8, 7, 6, 5, 4, 3, 2, 1, 0>>
           /\ pulls = 11
           /\ srcPos = 10
           /\ srcStops = 1

C15_Witness ==
    Example4 /\ Len(out) = 10 /\ pulls = 11 /\ nadv = 11

(***************************************************************************)
(* C16: example 5.  Empty source, slice (0, 5, 1): nothing is yielded; as  *)
(* stated, the source is pulled 0 times, counting next-calls (exhaustion   *)
(* probe included).                                                        *)
(***************************************************************************)
Example5 ==
    /\ pc # "uncalled"
    /\ source = <<>>
    /\ args = <<Some(0), Some(5), Some(1)>>
    /\ lastResult = "StopIteration"

C16_Example5ZeroPulls ==
    Example5 => (out = <<>> /\ pulls = 0)

\* C16 amended: nothing is yielded and no element is consumed, and the source
\* receives exactly 1 next-call, the one that signals exhaustion.
C16_Example5OneProbe ==
    Example5
        => /\ out = <<>>
           /\ pulls = 1
           /\ srcPos = 0
           /\ srcStops = 1

C16_Witness ==
    Example5 /\ nadv = 2 /\ pulls = 1 /\ out = <<>>

(***************************************************************************)
(* C18: NEGATIVE_STEP on a short source.  With start >= 0, stop None or    *)
(* >= 0, step < 0 and fewer than start+1 elements in the source, the       *)
(* result is, as stated, empty, and the source is drained to exhaustion.   *)
(***************************************************************************)
ShortNegativeStep ==
    /\ Called
    /\ NegativeStep
    /\ Len(source) < NStart + 1
    /\ nadv >= 1

C18_ShortSourceEmptyResult ==
    ShortNegativeStep => (out = <<>> /\ srcPos = Len(source) /\ srcStops >= 1)

\* The slice of a source shorter than start+1: it starts at the LAST element
\* of the source and walks down by |step| while the index is above stop.
ShortResult ==
    LET last == Len(source) - 1
        low  == IF ArgStop = None THEN -1 ELSE Val(ArgStop)
        n    == IF last > low THEN ((last - low - 1) \div (-NStep)) + 1 ELSE 0
    IN [i \in 1..n |-> source[last - (i - 1) * (-NStep) + 1]]

\* C18 amended: the source is drained to exhaustion on the first advance
\* (every element and the exhaustion signal, len+1 next-calls), and the
\* result is the slice of the whole source with start clamped to its last
\* element, which is empty only if the source has at most stop+1 elements.
C18_ShortSourceClampedResult ==
    ShortNegativeStep
        => /\ srcPos = Len(source)
           /\ pulls = Len(source) + 1
           /\ srcStops = 1
           /\ Produces(ShortResult)
           /\ buffer = SubSeq(ShortResult, Len(out) + 1, Len(ShortResult))

C18_Witness ==
    /\ ShortNegativeStep
    /\ Len(source) = 3
    /\ args = <<Some(5), None, Some(-1)>>
    /\ lastResult = "StopIteration"
    /\ out = <<2, 1, 0>>
    /\ pulls = 4

(***************************************************************************)
(* C19: for start > 0, stop > 0 and step < 0 the result is, as stated,     *)
(* always empty, and the first advance drains the source up to start+1     *)
(* elements.                                                               *)
(***************************************************************************)
PositiveBoundsNegativeStep ==
    /\ Called
    /\ ArgStart # None /\ NStart > 0
    /\ ArgStop # None /\ Val(ArgStop) > 0
    /\ NStep < 0
    /\ nadv >= 1

C19_PositiveBoundsAlwaysEmpty ==
    PositiveBoundsNegativeStep
        => /\ out = <<>>
           /\ srcPos = Min(NStart + 1, Len(source))

\* C19 amended: the first advance consumes min(start+1, len) elements (with
\* the exhaustion signal when the source is shorter than start+1), and the
\* result is empty exactly when min(start, len-1) <= stop; otherwise its
\* first element is the one at index min(start, len-1).
C19_EmptyOnlyWhenStartNotAboveStop ==
    PositiveBoundsNegativeStep
        => /\ srcPos = Min(NStart + 1, Len(source))
           /\ pulls = Min(NStart + 1, Len(source) + 1)
           /\ IF Min(NStart, Len(source) - 1) <= Val(ArgStop)
              THEN out = <<>> /\ lastResult = "StopIteration"
              ELSE out # <<>> /\ out[1] = source[Min(NStart, Len(source) - 1) + 1]

C19_Witness ==
    /\ PositiveBoundsNegativeStep
    /\ Len(source) = 3
    /\ args = <<Some(2), Some(1), Some(-1)>>
    /\ nadv = 1
    /\ out = <<2>>
    /\ pulls = 3
    /\ srcStops = 0

(***************************************************************************)
(* C20: FORWARD streaming cost.  For every step > 0, as stated, after k    *)
(* results have been returned the source has been pulled at most           *)
(* start + k times.                                                        *)
(***************************************************************************)
C20_OnePullPerResult ==
    (Called /\ Forward /\ lastResult = "item") => pulls <= NStart + Len(out)

\* C20 amended: right after the k-th result (k >= 1) the source has been
\* pulled exactly start + (k-1)*step + 1 times (start + k only for step 1),
\* and at any time at most start + k*step + 1 times: each result costs step
\* source elements, and the advance that reports the end may pull up to
\* the next index or the exhaustion signal.
C20_StepPullsPerResult ==
    (Called /\ Forward)
        => /\ lastResult = "item" => pulls = NStart + (Len(out) - 1) * NStep + 1
           /\ pulls <= NStart + Len(out) * NStep + 1

C20_Witness ==
    /\ Called /\ Forward
    /\ args = <<Some(0), None, Some(2)>>
    /\ Len(source) = 3
    /\ lastResult = "item"
    /\ out = <<0, 2>>
    /\ pulls = 3

(***************************************************************************)
(* C21: FORWARD never pre-fetches.  In the forward strategy, when an       *)
(* advance returns the source element of index i, the source has been      *)
(* pulled exactly i+1 times in total: it is never advanced past the        *)
(* element just returned and no pulled element is held back.  (The source  *)
(* is Range(n), so an element's value is its index.)                       *)
(***************************************************************************)
C21_ForwardNeverPrefetches ==
    (Called /\ Forward /\ lastResult = "item")
        => /\ lastItem # None
           /\ source[Val(lastItem) + 1] = Val(lastItem)
           /\ pulls = Val(lastItem) + 1
           /\ srcPos = Val(lastItem) + 1
           /\ srcStops = 0
           /\ buffer = <<>>

C21_Witness ==
    /\ Called /\ Forward
    /\ args = <<Some(1), None, Some(2)>>
    /\ Len(source) = 3
    /\ lastResult = "item"
    /\ lastItem = Some(1)
    /\ pulls = 2
    /\ nadv = 1

(***************************************************************************)
(* C22: the zero-step error is raised only on the first advance.  For an   *)
(* operator constructed with step = 0 the first advance fails with the     *)
(* invalid-argument error (ValueError), every later advance reports the    *)
(* end of the sequence instead of raising again, and the source is pulled  *)
(* 0 times over the whole sequence of advances.                            *)
(***************************************************************************)
C22_ZeroStepErrorOnlyOnce ==
    (Called /\ NStep = 0)
        => /\ pulls = 0 /\ srcPos = 0 /\ srcStops = 0
           /\ out = <<>>
           /\ nadv = 0 => lastResult = "none"
           /\ nadv = 1 => lastResult = "ValueError"
           /\ nadv >= 2 => lastResult = "StopIteration"

C22_Witness ==
    /\ Called /\ NStep = 0
    /\ Len(source) = 3
    /\ nadv = 3
    /\ lastResult = "StopIteration"
    /\ pulls = 0

(***************************************************************************)
(* C23: strategy selection uses the normalized start.  With start absent   *)
(* and step < 0, start normalizes to -1 and NEGATIVE_INDEX is selected:    *)
(* the first advance drains the whole source (len+1 next-calls) whatever   *)
(* stop is, stop >= 0 included.  With start absent and step > 0 it         *)
(* normalizes to 0 and the operator streams unless stop < 0.  Every slice  *)
(* with step # 0 selects exactly one of the three strategies.              *)
(***************************************************************************)
SelectedStrategy == Strategy(SanitizedSlice(RawSlice(args)))

Drained ==
    nadv >= 1 => (pulls = Len(source) + 1 /\ srcPos = Len(source) /\ srcStops = 1)

C23_SelectionUsesNormalizedStart ==
    (Called /\ NStep # 0)
        => /\ SelectedStrategy \in {"NEGATIVE_INDEX", "NEGATIVE_STEP", "FORWARD"}
           /\ (SelectedStrategy = "NEGATIVE_INDEX") <=> NegativeIndex
           /\ (SelectedStrategy = "NEGATIVE_STEP") <=> NegativeStep
           /\ (SelectedStrategy = "FORWARD") <=> Forward
           /\ Cardinality({b \in {1, 2, 3} :
                   \/ b = 1 /\ NegativeIndex
                   \/ b = 2 /\ NegativeStep
                   \/ b = 3 /\ Forward}) = 1
           /\ (ArgStart = None /\ NStep < 0)
                 => /\ SanitizedSlice(RawSlice(args)).start = -1
                    /\ SelectedStrategy = "NEGATIVE_INDEX"
                    /\ Drained
           /\ (ArgStart = None /\ NStep > 0)
                 => /\ SanitizedSlice(RawSlice(args)).start = 0
                    /\ IF ArgStop # None /\ Val(ArgStop) < 0
                       THEN SelectedStrategy = "NEGATIVE_INDEX" /\ Drained
                       ELSE /\ SelectedStrategy = "FORWARD"
                            /\ pc # "buffered" /\ buffer = <<>>
                            /\ nadv = 1 => pulls <= 1

C23_Witness ==
    /\ Called
    /\ args = <<None, Some(0), Some(-1)>>
    /\ Len(source) = 3
    /\ nadv = 1
    /\ pulls = 4
    /\ srcStops = 1
    /\ out = <<2>>
    /\ buffer = <<1>>

(***************************************************************************)
(* C24: arity is, as stated, the one constraint enforced eagerly:          *)
(* constructing the operator with a number of slice arguments outside      *)
(* {1, 2, 3} fails at construction, before any advance, whereas the        *)
(* zero-step validation is deferred to the first advance.                  *)
(***************************************************************************)
BadArity == pc # "uncalled" /\ Len(args) \notin 1..3

C24_ArityRejectedAtConstruction ==
    /\ (BadArity /\ nadv = 0) => (lastResult = "TypeError" /\ pc = "done")
    /\ (Called /\ NStep = 0 /\ nadv = 0) => lastResult = "none"

\* C24 amended: no constraint is enforced at construction, arity included.
\* With a number of slice arguments outside {1, 2, 3} the construction
\* succeeds and reports nothing; the arity error (TypeError) is raised by
\* the first advance, like the zero-step error, every later advance reports
\* the end of the sequence, and the source is never pulled.
C24_ArityRejectedOnFirstAdvance ==
    /\ BadArity
          => /\ pulls = 0 /\ srcPos = 0 /\ out = <<>>
             /\ nadv = 0 => (lastResult = "none" /\ pc = "created")
             /\ nadv = 1 => (lastResult = "TypeError" /\ pc = "done")
             /\ nadv >= 2 => (lastResult = "StopIteration" /\ pc = "done")
    /\ (Called /\ NStep = 0 /\ nadv = 0) => (lastResult = "none" /\ pc = "created")

C24_Witness ==
    /\ BadArity
    /\ Len(args) = 4
    /\ Len(source) = 3
    /\ nadv = 1
    /\ lastResult = "TypeError"
    /\ pulls = 0

(***************************************************************************)
(* C25: the truncation lemma behind NEGATIVE_STEP.  For every list L and   *)
(* every slice with start >= 0, step < 0 and stop None or >= 0, slicing    *)
(* the prefix of the first min(start+1, len(L)) elements gives the same    *)
(* result as slicing the whole list, and no element of index > start       *)
(* appears in the result.  (L is the source, Range(n): an element's value  *)
(* is its index.)                                                          *)
(***************************************************************************)
TruncatedPrefix ==
    SubSeq(source, 1, Min(PrefixLen(SanitizedSlice(RawSlice(args))), Len(source)))

WholeListSlice == ListSlice(source, RawSlice(args))

C25_TruncationLemma ==
    (Called /\ NegativeStep)
        => /\ ListSlice(TruncatedPrefix, RawSlice(args)) = WholeListSlice
           /\ \A i \in 1..Len(WholeListSlice) : WholeListSlice[i] <= NStart
           /\ lastResult \in {"item", "StopIteration"}
                 => out \o buffer = WholeListSlice

C25_Witness ==
    /\ Called /\ NegativeStep
    /\ args = <<Some(1), None, Some(-1)>>
    /\ Len(source) = 3
    /\ TruncatedPrefix = <<0, 1>>
    /\ WholeListSlice = <<1, 0>>
    /\ nadv = 1
    /\ srcPos = 2
    /\ out = <<1>>
    /\ buffer = <<0>>

(***************************************************************************)
(* C26: IteratorCounter is a transparent relay, not a sticky one.  Every   *)
(* advance on the counter makes exactly one next-call on the wrapped       *)
(* source, also after the source has signalled exhaustion: consuming a     *)
(* source of n elements takes n+1 underlying calls, and one more advance   *)
(* makes exactly 1 more call, reports exhaustion and leaves count at n.    *)
(***************************************************************************)
C26_CounterRelaysEveryAdvance ==
    /\ [](pc = "counter"
            => /\ pulls = nadv
               /\ count = Min(nadv, Len(source))
               /\ srcStops = Max(0, nadv - Len(source)))
    /\ [][nadv' # nadv
            => /\ nadv' = nadv + 1
               /\ pulls' = pulls + 1
               /\ pulls >= Len(source)
                     => /\ lastResult' = "StopIteration"
                        /\ srcStops' = srcStops + 1
                        /\ count' = Len(source)
                        /\ count' = count]_vars

C26_Witness ==
    /\ pc = "counter"
    /\ Len(source) = 3
    /\ nadv = 5
    /\ pulls = 5
    /\ srcStops = 2
    /\ count = 3
    /\ lastResult = "StopIteration"

(***************************************************************************)
(* C27: the source is never pulled again after it has signalled            *)
(* exhaustion.  Over any sequence of advances and for any parameters the   *)
(* operator makes at most len(S)+1 next-calls on the source, and at most   *)
(* one of them returns the exhaustion signal.                              *)
(***************************************************************************)
C27_NoPullAfterExhaustion ==
    /\ [](pc # "uncalled"
            => /\ pulls <= Len(source) + 1
               /\ srcStops <= 1
               /\ pulls = srcPos + srcStops)
    /\ [][srcStops >= 1 => UNCHANGED <<pulls, srcPos, srcStops>>]_vars

C27_Witness ==
    /\ Called /\ Forward
    /\ ArgStop = None
    /\ NStep = 1
    /\ Len(source) = 3
    /\ nadv = 6
    /\ lastResult = "StopIteration"
    /\ pulls = 4
    /\ srcStops = 1

(***************************************************************************)
(* C28: a propagated failure is terminal.  After an advance has failed,    *)
(* with the zero-step error or with a failure raised by the source (in the *)
(* buffering strategies even when elements had already been pulled during  *)
(* the drain), every later advance reports the end of the sequence,        *)
(* returns none of the elements pulled before the failure, and makes no    *)
(* further next-call on the source.                                        *)
(***************************************************************************)
FailureReported == lastResult \in {"ValueError", "SourceError"}

\* The failing next-call of the source has been made.
SourceHasFailed == failAt > 0 /\ pulls >= failAt

C28_FailureIsTerminal ==
    /\ [](FailureReported => (pc = "done" /\ buffer = <<>> /\ lastItem = None))
    /\ [](SourceHasFailed
            => /\ pulls = failAt
               /\ pc = "done" /\ buffer = <<>>
               /\ lastResult \in {"SourceError", "StopIteration"})
    /\ []((Called /\ NStep = 0 /\ nadv >= 2)
            => (lastResult = "StopIteration" /\ pulls = 0 /\ out = <<>>))
    /\ [][(FailureReported \/ SourceHasFailed)
            => /\ lastResult' = "StopIteration"
               /\ lastItem' = None
               /\ out' = out
               /\ UNCHANGED <<pulls, srcPos, srcStops, buffer, pc>>]_vars

C28_Witness ==
    /\ Called /\ NegativeIndex /\ NStep # 0
    /\ Len(source) = 3
    /\ failAt = 3
    /\ nadv = 3
    /\ lastResult = "StopIteration"
    /\ pulls = 3
    /\ srcPos = 2
    /\ out = <<>>

(***************************************************************************)
(* C29: isolation of the working buffer from a co-existing consumer.  In   *)
(* the NEGATIVE_INDEX and NEGATIVE_STEP strategies, once the first advance *)
(* has returned, the remaining sequence of results is fixed: next-calls    *)
(* made directly on the shared source by another consumer, interleaved in  *)
(* any way between later advances, change neither the elements the         *)
(* operator yields nor their order.  In the FORWARD strategy they do: the  *)
(* operator yields whatever the shared source gives next, so each element  *)
(* it returns lies as many positions further in the source as the other    *)
(* consumer has taken elements.                                            *)
(***************************************************************************)
Buffering == Called /\ NStep # 0 /\ ~Forward

C29_BufferIsolatedFromSharedSource ==
    /\ [][(Buffering /\ nadv >= 1)
            => /\ out' \o buffer' = out \o buffer
               /\ nadv' = nadv => UNCHANGED <<out, buffer, lastResult, lastItem>>
               /\ nadv' # nadv
                     => /\ UNCHANGED <<pulls, srcPos, srcStops, count>>
                        /\ IF buffer = <<>>
                           THEN lastResult' = "StopIteration" /\ out' = out
                           ELSE /\ lastResult' = "item"
                                /\ lastItem' = Some(Head(buffer))
                                /\ out' = Append(out, Head(buffer))]_vars
    /\ [][(Called /\ Forward /\ nadv' # nadv /\ lastResult' = "item")
            => /\ Len(out') <= Len(RefResult)
               /\ Val(lastItem') = RefResult[Len(out')] + count]_vars

C29_Witness ==
    /\ Called /\ NegativeStep
    /\ args = <<Some(1), None, Some(-1)>>
    /\ Len(source) = 3
    /\ nadv = 2
    /\ count = 1
    /\ srcPos = 3
    /\ out = <<1, 0>>
    /\ lastResult = "item"

\* The forward case of C29: the other consumer has taken element 1 and the
\* operator, asked for every element, yields 0 and then 2.
C29_ForwardWitness ==
    /\ Called /\ Forward
    /\ args = <<None>>
    /\ Len(source) = 3
    /\ count = 1
    /\ out = <<0, 2>>
    /\ lastResult = "item"

====
